---- MODULE Spec2Model ----
(***************************************************************************)
(* A model of the `minus` pager: the Pager struct of src/src/lib.rs, its   *)
(* text operations (set_text, push_str, readjust_wraps), its setters, its  *)
(* exit callbacks, and the renderer of src/src/utils/mod.rs (write_lines,  *)
(* draw, annotate_line_numbers).                                           *)
(*                                                                         *)
(* Text is a sequence of one-character strings; a row is such a sequence,  *)
(* a wrapped line is a sequence of rows and the wrap buffer a sequence of  *)
(* wrapped lines (Vec<Vec<String>>).                                       *)
(***************************************************************************)
EXTENDS Naturals, Sequences, FiniteSets, TLC

VARIABLES
    wrap_lines,      \* Pager.wrap_lines : Vec<Vec<String>>
    lines,           \* Pager.lines : the pending, unterminated text
    upper_mark,      \* Pager.upper_mark
    rows,            \* Pager.rows
    cols,            \* Pager.cols
    line_numbers,    \* Pager.line_numbers
    prompt,          \* Pager.prompt : Vec<String>
    message,         \* Pager.message : (Option<Vec<String>>, bool)
    run_no_overflow, \* Pager.run_no_overflow
    end_stream,      \* Pager.end_stream
    exit_strategy,   \* Pager.exit_strategy
    exit_callbacks,  \* Pager.exit_callbacks : the registered callbacks, by id
    phase,           \* the session: "running" until teardown, then "terminated"
    invoked,         \* history: the callbacks invoked so far, in order
    fed,             \* history: the text given to push_str since construction
    replaced,        \* history: set_text has been called
    fresh_wrap,      \* history: the buffer of a fresh pager given the last
                     \*          set_text and the push_str calls after it
    fresh_lines,     \* history: that fresh pager's pending text
    logical,         \* history: the logical lines the code wrapped into the buffer
    widths,          \* history: the cols at construction or at the last
                     \*          set_text, then the cols of every resize since
    last,            \* history: the last call [op, arg, outcome]
    out,             \* what the last call wrote: its rows, the reserved last
                     \* row, whether it cleared the screen, and whether it
                     \* moved upper_mark
    mutex,           \* PagerMutex: the task holding the lock, or "free"
    producer,        \* the producer task: its position, the call it is
                     \* making and the field writes of it made so far
    renderer,        \* the render task: its position, the committed state
                     \* when it took the lock, and what its draw read
    committed        \* history: the buffer and pending text the completed
                     \* producer calls amount to, and how many there were

pager == <<wrap_lines, lines, upper_mark, rows, cols, line_numbers, prompt,
           message, run_no_overflow, end_stream, exit_strategy, exit_callbacks>>
history == <<phase, invoked, fed, replaced, fresh_wrap, fresh_lines, logical, widths,
             last, out>>
tasks == <<mutex, producer, renderer, committed>>
vars == <<pager, history, tasks>>

(***************************************************************************)
(* Bounds of the model.                                                    *)
(***************************************************************************)
MaxFed == 4          \* characters given to push_str in one run
MaxChunk == 2        \* characters of one push_str argument
MaxLineLen == 4      \* characters of a logical line in the wrapping runs
MaxCols == 3         \* widest terminal of the text and wrapping runs
MaxResizes == 2      \* resizes in one run
MaxRows == 3         \* tallest terminal of the rendering runs
MaxDocLines == 3     \* logical lines of a document in the rendering runs
MaxMark == 2         \* largest upper_mark assigned in the rendering runs
MaxCallbacks == 3    \* exit callbacks registered in one run
MaxNumberLines == 10 \* logical lines, and letters of a line, in the numbering runs
MaxShared == 3       \* producer calls of a shared session

(***************************************************************************)
(* Characters and strings.                                                 *)
(***************************************************************************)
SP == " "
NL == "\n"

Min(a, b) == IF a < b THEN a ELSE b
Max(a, b) == IF a > b THEN a ELSE b

\* usize::saturating_sub
SatSub(a, b) == IF a > b THEN a - b ELSE 0

\* All strings over alphabet of length lo..hi.
StringsOver(alphabet, lo, hi) ==
    UNION {[1..n -> alphabet] : n \in lo..hi}

Contains(s, c) == \E i \in DOMAIN s : s[i] = c

\* str::ends_with('\n')
EndsWithNL(s) == s # <<>> /\ s[Len(s)] = NL

\* The index of the first c in s, 0 when there is none.
IndexOf(s, c) ==
    IF Contains(s, c) THEN CHOOSE i \in DOMAIN s :
                               s[i] = c /\ \A j \in 1..(i - 1) : s[j] # c
    ELSE 0

\* str::split(c): the pieces between the separators, at least one piece.
RECURSIVE SplitOn(_, _)
SplitOn(s, c) ==
    LET i == IndexOf(s, c)
    IN  IF i = 0 THEN <<s>>
        ELSE <<SubSeq(s, 1, i - 1)>> \o SplitOn(SubSeq(s, i + 1, Len(s)), c)

\* str::lines(): split on the separator; a final empty piece is not a line.
StrLines(s) ==
    LET p == SplitOn(s, NL)
    IN  IF p[Len(p)] = <<>> THEN SubSeq(p, 1, Len(p) - 1) ELSE p

\* [String]::join(sep)
RECURSIVE Join(_, _)
Join(rs, sep) ==
    IF rs = <<>> THEN <<>>
    ELSE IF Len(rs) = 1 THEN rs[1]
    ELSE rs[1] \o <<sep>> \o Join(Tail(rs), sep)

\* Iterator::flatten over the wrapped lines.
RECURSIVE Flatten(_)
Flatten(ls) == IF ls = <<>> THEN <<>> ELSE ls[1] \o Flatten(Tail(ls))

Spaces(n) == [i \in 1..n |-> SP]

(***************************************************************************)
(* textwrap::wrap(text, width), as wrap_str and rewrap call it: split the  *)
(* text at line separators; cut each line into words (a run of non-space   *)
(* characters and the spaces after it); break a word wider than the width  *)
(* into pieces of width characters (of one character at width 0); fill     *)
(* rows first-fit; a row is its words with the spaces between them, the    *)
(* spaces after its last word dropped.  An empty line gives one empty row. *)
(***************************************************************************)
\* The length of the longest prefix of s whose characters are all (not) spaces.
RECURSIVE RunLen(_, _)
RunLen(s, space) ==
    IF s = <<>> \/ ((s[1] = SP) # space) THEN 0
    ELSE 1 + RunLen(Tail(s), space)

RECURSIVE find_words(_)
find_words(line) ==
    IF line = <<>> THEN <<>>
    ELSE LET n == RunLen(line, FALSE)
             m == RunLen(SubSeq(line, n + 1, Len(line)), TRUE)
         IN  <<[word |-> SubSeq(line, 1, n), ws |-> m]>>
             \o find_words(SubSeq(line, n + m + 1, Len(line)))

\* Word::break_apart: pieces of at most width characters, never empty; the
\* last piece keeps the word's trailing spaces.
RECURSIVE break_apart(_, _)
break_apart(w, width) ==
    LET k == Max(width, 1)
    IN  IF Len(w.word) <= k THEN <<w>>
        ELSE <<[word |-> SubSeq(w.word, 1, k), ws |-> 0]>>
             \o break_apart([word |-> SubSeq(w.word, k + 1, Len(w.word)),
                             ws |-> w.ws], width)

RECURSIVE break_words(_, _)
break_words(words, width) ==
    IF words = <<>> THEN <<>>
    ELSE (IF Len(words[1].word) > width THEN break_apart(words[1], width)
          ELSE <<words[1]>>)
         \o break_words(Tail(words), width)

\* core::wrap_first_fit: cur is the row being filled, used its width so far.
RECURSIVE wrap_first_fit(_, _, _, _)
wrap_first_fit(frags, cur, used, width) ==
    IF frags = <<>> THEN <<cur>>
    ELSE LET f == frags[1]
         IN  IF used + Len(f.word) > width /\ cur # <<>>
             THEN <<cur>> \o wrap_first_fit(Tail(frags), <<f>>,
                                            Len(f.word) + f.ws, width)
             ELSE wrap_first_fit(Tail(frags), Append(cur, f),
                                 used + Len(f.word) + f.ws, width)

\* The text of one row: its words and the spaces between them.
RECURSIVE RowText(_)
RowText(ws) ==
    IF ws = <<>> THEN <<>>
    ELSE IF Len(ws) = 1 THEN ws[1].word
    ELSE ws[1].word \o Spaces(ws[1].ws) \o RowText(Tail(ws))

WrapLine(line, width) ==
    LET filled == wrap_first_fit(break_words(find_words(line), width),
                                 <<>>, 0, width)
    IN  [i \in DOMAIN filled |-> RowText(filled[i])]

RECURSIVE WrapEach(_, _)
WrapEach(ls, width) ==
    IF ls = <<>> THEN <<>>
    ELSE WrapLine(ls[1], width) \o WrapEach(Tail(ls), width)

textwrap_wrap(text, width) == WrapEach(SplitOn(text, NL), width)

\* wrap_str(line, cols)
wrap_str(line, c) == textwrap_wrap(line, c)

\* rewrap(line, cols): join the rows with one space and wrap again.
rewrap(line, c) == textwrap_wrap(Join(line, SP), c)

\* rewrap_lines(lines, cols)
rewrap_lines(ls, c) == [i \in DOMAIN ls |-> rewrap(ls[i], c)]

\* text.lines().map(|l| wrap_str(l, cols)).collect()
WrapAll(ls, c) == [i \in DOMAIN ls |-> wrap_str(ls[i], c)]

(***************************************************************************)
(* Pager::push_str.                                                        *)
(***************************************************************************)
\* The logical lines one push_str call wraps into the buffer, given the
\* pending text: all lines of pending + string when the string ends with a
\* separator; the string's own lines but the last when it holds a separator
\* elsewhere; none otherwise.
push_str_pushed_own(pend, string) ==
    IF EndsWithNL(string) THEN StrLines(string)
    ELSE IF Contains(string, NL)
         THEN LET ls == StrLines(string) IN SubSeq(ls, 1, Len(ls) - 1)
         ELSE <<>>

push_str_pushed(pend, string) ==
    IF EndsWithNL(string) THEN StrLines(pend \o string)
    ELSE IF Contains(string, NL)
         THEN LET ls == StrLines(string) IN SubSeq(ls, 1, Len(ls) - 1)
         ELSE <<>>

\* self.lines after the call.
push_str_lines_replaced(pend, string) ==
    IF EndsWithNL(string) THEN <<>>
    ELSE IF Contains(string, NL)
         THEN LET ls == StrLines(string) IN pend \o ls[Len(ls)]
         ELSE string

push_str_lines_unsplit(pend, string) ==
    IF EndsWithNL(string) THEN <<>> ELSE pend \o string

push_str_lines(pend, string) ==
    IF EndsWithNL(string) THEN <<>>
    ELSE IF Contains(string, NL)
         THEN LET ls == StrLines(string) IN pend \o ls[Len(ls)]
         ELSE pend \o string

\* self.wrap_lines after the call.
push_str_wrap(wl, pend, string, c) ==
    wl \o WrapAll(push_str_pushed(pend, string), c)

(***************************************************************************)
(* Pager::set_text.                                                        *)
(***************************************************************************)
\* self.wrap_lines after the call.
set_text_wrap(text, c) == WrapAll(StrLines(text), c)

\* self.lines after the call: set_text does not assign the field.
set_text_lines(pend, text) == pend

(***************************************************************************)
(* Line numbers (utils/mod.rs).                                            *)
(***************************************************************************)
LineNumbers == {"AlwaysOn", "Enabled", "Disabled", "AlwaysOff"}

\* impl Not for LineNumbers: the toggle.
not_unlocked(l) ==
    CASE l = "Enabled" -> "Disabled"
      [] l = "Disabled" -> "Enabled"
      [] l = "AlwaysOn" -> "AlwaysOff"
      [] OTHER -> "AlwaysOn"

not(l) ==
    CASE l = "Enabled" -> "Disabled"
      [] l = "Disabled" -> "Enabled"
      [] OTHER -> l

\* LineNumbers::is_invertible
is_invertible(l) == l \in {"Enabled", "Disabled"}

DigitChars == <<"0", "1", "2", "3", "4", "5", "6", "7", "8", "9">>

\* The decimal digits of n, as format!("{}", n) writes them.
RECURSIVE Digits(_)
Digits(n) ==
    IF n < 10 THEN <<DigitChars[n + 1]>>
    ELSE Digits(n \div 10) \o <<DigitChars[(n % 10) + 1]>>

\* (line_count as f64).log10().floor() as usize + 1; the cast of the
\* negative infinity of log10(0) saturates to 0.
len_line_number(line_count) ==
    IF line_count = 0 THEN 1 ELSE Len(Digits(line_count))

\* format!(" {number: >len$}. ", ...): the visible characters (the bold and
\* reset sequences of a non-test build have no width).
fmt_numbers(number, len) ==
    <<SP>> \o Spaces(SatSub(len, Len(Digits(number)))) \o Digits(number)
    \o <<".", SP>>

\* The rows of one logical line after annotation: every row of the line is
\* rewrapped to cols - padding and gets the prefix inserted.
annotate_line(line, idx, len, c) ==
    LET rs == rewrap(line, SatSub(c, len + 3))
    IN  [i \in DOMAIN rs |-> fmt_numbers(idx, len) \o rs[i]]

annotate_line_numbers(ls, len, c) ==
    Flatten([i \in DOMAIN ls |-> annotate_line(ls[i], i, len, c)])

(***************************************************************************)
(* write_lines and draw (utils/mod.rs).                                    *)
(***************************************************************************)
\* Pager::num_lines: the number of rows of the flattened buffer.
num_lines(wl) == Len(Flatten(wl))

\* Iterator::skip(k).take(n)
SkipTake(s, k, n) == SubSeq(s, k + 1, Min(Len(s), k + n))

\* pager.upper_mark after write_lines.
clamped_no_else(um, line_count, prows) ==
    LET rs == SatSub(prows, 1)
        lower_mark == um + Min(rs, line_count)
    IN  IF lower_mark > line_count /\ line_count < prows THEN 0 ELSE um

clamped_upper_mark(um, line_count, prows) ==
    LET rs == SatSub(prows, 1)
        lower_mark == um + Min(rs, line_count)
    IN  IF lower_mark > line_count
        THEN (IF line_count < prows THEN 0 ELSE SatSub(line_count, rs))
        ELSE um

\* The sequence of rows write_lines slices.
row_source(wl, ln, c) ==
    IF ln \in {"AlwaysOff", "Disabled"} THEN Flatten(wl)
    ELSE annotate_line_numbers(wl, len_line_number(num_lines(wl)), c)

\* displayed_lines, um being upper_mark after the clamp.
displayed_lines(wl, um, ln, prows, c) ==
    SkipTake(row_source(wl, ln, c), um,
             Min(SatSub(prows, 1), num_lines(wl)))

\* pager.wrap_lines after rendering: the renderer annotates
\* pager.get_lines(), a clone, and leaves the buffer as it was.
lines_annotated_in_place(wl, ln, c) ==
    IF ln \in {"AlwaysOff", "Disabled"} THEN wl
    ELSE rewrap_lines(wl, SatSub(c, len_line_number(num_lines(wl)) + 3))

lines_after_render(wl, ln, c) == wl

\* draw's test for the one-shot dump.
no_overflow_applies(rno, wl, prows) == rno /\ num_lines(wl) <= prows

\* The text of the reserved last row: the message when there is one, else
\* the prompt; its first row is written.
bottom_row(msg, pr) == IF msg.some THEN msg.text[1] ELSE pr[1]

NoOut == [rows |-> <<>>, bottom |-> <<>>, cleared |-> FALSE, clamped |-> FALSE]
\* (None, false)
NoMessage == [some |-> FALSE, text |-> <<>>, changed |-> FALSE]
MinusText == <<"m", "i", "n", "u", "s">>

\* The tasks of a shared session before their first step.
ProducerIdle == [pc |-> "idle", op |-> "none", arg |-> <<>>, done |-> 0]
NothingCommitted == [wrap_lines |-> <<>>, lines |-> <<>>, count |-> 0]

(***************************************************************************)
(* The state after Pager::new on a terminal of r rows and c columns.       *)
(***************************************************************************)
New(r, c) ==
    /\ wrap_lines = <<>>
    /\ lines = <<>>
    /\ upper_mark = 0
    /\ rows = r
    /\ cols = c
    /\ line_numbers = "Disabled"
    /\ prompt = wrap_str(MinusText, c)
    /\ message = NoMessage
    /\ run_no_overflow = FALSE
    /\ end_stream = FALSE
    /\ exit_strategy = "ProcessQuit"
    /\ exit_callbacks = <<>>
    /\ phase = "running"
    /\ invoked = <<>>
    /\ fed = <<>>
    /\ replaced = FALSE
    /\ fresh_wrap = <<>>
    /\ fresh_lines = <<>>
    /\ logical = <<>>
    /\ widths = <<c>>
    /\ last = [op |-> "new", arg |-> <<>>, outcome |-> "ok"]
    /\ out = NoOut
    /\ mutex = "free"
    /\ producer = ProducerIdle
    /\ renderer = [pc |-> "idle", base |-> NothingCommitted,
                   wrap_lines |-> <<>>, lines |-> <<>>]
    /\ committed = NothingCommitted

Record(op, arg, outcome) ==
    last' = [op |-> op, arg |-> arg, outcome |-> outcome]

\* A call on a pager that is not shared: no task takes a step.
Call(op, arg, outcome) ==
    /\ Record(op, arg, outcome)
    /\ UNCHANGED tasks

(***************************************************************************)
(* The operations.                                                         *)
(***************************************************************************)
\* Pager::set_text(text)
SetText(text) ==
    /\ wrap_lines' = set_text_wrap(text, cols)
    /\ lines' = set_text_lines(lines, text)
    /\ replaced' = TRUE
    /\ fresh_wrap' = WrapAll(StrLines(text), cols)
    /\ fresh_lines' = <<>>
    /\ logical' = StrLines(text)
    /\ widths' = <<cols>>
    /\ Call("set_text", text, "ok")
    /\ out' = NoOut
    /\ UNCHANGED <<upper_mark, rows, cols, line_numbers, prompt, message,
                   run_no_overflow, end_stream, exit_strategy, exit_callbacks,
                   phase, invoked, fed>>

\* Pager::push_str(string), also fmt::Write::write_str
PushStr(string) ==
    /\ wrap_lines' = push_str_wrap(wrap_lines, lines, string, cols)
    /\ lines' = push_str_lines(lines, string)
    /\ fed' = fed \o string
    /\ fresh_wrap' = push_str_wrap(fresh_wrap, fresh_lines, string, cols)
    /\ fresh_lines' = push_str_lines(fresh_lines, string)
    /\ logical' = logical \o push_str_pushed(lines, string)
    /\ Call("push_str", string, "ok")
    /\ out' = NoOut
    /\ UNCHANGED <<upper_mark, rows, cols, line_numbers, prompt, message,
                   run_no_overflow, end_stream, exit_strategy, exit_callbacks,
                   phase, invoked, replaced, widths>>

\* A resize: the caller assigns pager.cols and calls Pager::readjust_wraps.
Resize(c) ==
    /\ cols' = c
    /\ wrap_lines' = rewrap_lines(wrap_lines, c)
    /\ message' = IF message.some
                  THEN [message EXCEPT !.text = rewrap(message.text, c)]
                  ELSE message
    /\ prompt' = rewrap(prompt, c)
    /\ fresh_wrap' = rewrap_lines(fresh_wrap, c)
    /\ widths' = Append(widths, c)
    /\ Call("readjust_wraps", <<c>>, "ok")
    /\ out' = NoOut
    /\ UNCHANGED <<lines, upper_mark, rows, line_numbers, run_no_overflow,
                   end_stream, exit_strategy, exit_callbacks, phase, invoked,
                   fed, replaced, fresh_lines, logical>>

\* How set_prompt and send_message end: the panic on a separator.
rejects(t) == Contains(t, NL)

\* self.prompt after set_prompt(t): the panic comes before the assignment.
set_prompt_unchecked(pr, t, c) == wrap_str(t, c)

set_prompt_prompt(pr, t, c) == IF rejects(t) THEN pr ELSE wrap_str(t, c)

\* self.message after send_message(t).
send_message_message(msg, t, c) ==
    IF rejects(t) THEN msg
    ELSE [some |-> TRUE, text |-> wrap_str(t, c), changed |-> TRUE]

\* Pager::set_prompt(t)
SetPrompt(t) ==
    /\ Call("set_prompt", t, IF rejects(t) THEN "panic" ELSE "ok")
    /\ prompt' = set_prompt_prompt(prompt, t, cols)
    /\ out' = NoOut
    /\ UNCHANGED <<wrap_lines, lines, upper_mark, rows, cols, line_numbers,
                   message, run_no_overflow, end_stream, exit_strategy,
                   exit_callbacks, phase, invoked, fed, replaced, fresh_wrap,
                   fresh_lines, logical, widths>>

\* Pager::send_message(text)
SendMessage(t) ==
    /\ Call("send_message", t, IF rejects(t) THEN "panic" ELSE "ok")
    /\ message' = send_message_message(message, t, cols)
    /\ out' = NoOut
    /\ UNCHANGED <<wrap_lines, lines, upper_mark, rows, cols, line_numbers,
                   prompt, run_no_overflow, end_stream, exit_strategy,
                   exit_callbacks, phase, invoked, fed, replaced, fresh_wrap,
                   fresh_lines, logical, widths>>

\* Pager::set_line_numbers(l)
SetLineNumbers(l) ==
    /\ line_numbers' = l
    /\ Call("set_line_numbers", <<l>>, "ok")
    /\ out' = NoOut
    /\ UNCHANGED <<wrap_lines, lines, upper_mark, rows, cols, prompt, message,
                   run_no_overflow, end_stream, exit_strategy, exit_callbacks,
                   phase, invoked, fed, replaced, fresh_wrap, fresh_lines,
                   logical, widths>>

\* pager.line_numbers = !pager.line_numbers
ToggleLineNumbers ==
    /\ line_numbers' = not(line_numbers)
    /\ Call("not", <<line_numbers>>, "ok")
    /\ out' = NoOut
    /\ UNCHANGED <<wrap_lines, lines, upper_mark, rows, cols, prompt, message,
                   run_no_overflow, end_stream, exit_strategy, exit_callbacks,
                   phase, invoked, fed, replaced, fresh_wrap, fresh_lines,
                   logical, widths>>

\* Pager::set_run_no_overflow(value)
SetRunNoOverflow(value) ==
    /\ run_no_overflow' = value
    /\ Call("set_run_no_overflow", <<value>>, "ok")
    /\ out' = NoOut
    /\ UNCHANGED <<wrap_lines, lines, upper_mark, rows, cols, line_numbers,
                   prompt, message, end_stream, exit_strategy, exit_callbacks,
                   phase, invoked, fed, replaced, fresh_wrap, fresh_lines,
                   logical, widths>>

\* enum ExitStrategy
ExitStrategy == {"ProcessQuit", "PagerQuit"}

\* Pager::set_exit_strategy(strategy)
SetExitStrategy(strategy) ==
    /\ exit_strategy' = strategy
    /\ Call("set_exit_strategy", <<strategy>>, "ok")
    /\ out' = NoOut
    /\ UNCHANGED <<wrap_lines, lines, upper_mark, rows, cols, line_numbers,
                   prompt, message, run_no_overflow, end_stream,
                   exit_callbacks, phase, invoked, fed, replaced, fresh_wrap,
                   fresh_lines, logical, widths>>

\* self.end_stream after end_data_stream().
end_data_stream_unset(es) == es

end_data_stream_end(es) == TRUE

\* Pager::end_data_stream()
EndDataStream ==
    /\ end_stream' = end_data_stream_end(end_stream)
    /\ Call("end_data_stream", <<>>, "ok")
    /\ out' = NoOut
    /\ UNCHANGED <<wrap_lines, lines, upper_mark, rows, cols, line_numbers,
                   prompt, message, run_no_overflow, exit_strategy,
                   exit_callbacks, phase, invoked, fed, replaced, fresh_wrap,
                   fresh_lines, logical, widths>>

\* The event loop, once a render has shown the message: the message is no
\* longer "changed since last render"; it stays present.
MessageRendered ==
    /\ message.some /\ message.changed
    /\ last.op = "draw"
    /\ message' = [message EXCEPT !.changed = FALSE]
    /\ Call("message_rendered", <<>>, "ok")
    /\ out' = NoOut
    /\ UNCHANGED <<wrap_lines, lines, upper_mark, rows, cols, line_numbers,
                   prompt, run_no_overflow, end_stream, exit_strategy,
                   exit_callbacks, phase, invoked, fed, replaced, fresh_wrap,
                   fresh_lines, logical, widths>>

\* pager.rows = r, as the tests and a resize assign it.
SetRows(r) ==
    /\ rows' = r
    /\ Call("set_rows", <<r>>, "ok")
    /\ out' = NoOut
    /\ UNCHANGED <<wrap_lines, lines, upper_mark, cols, line_numbers, prompt,
                   message, run_no_overflow, end_stream, exit_strategy,
                   exit_callbacks, phase, invoked, fed, replaced, fresh_wrap,
                   fresh_lines, logical, widths>>

\* pager.upper_mark = u, as the tests and the scroll commands assign it.
SetUpperMark(u) ==
    /\ upper_mark' = u
    /\ Call("set_upper_mark", <<u>>, "ok")
    /\ out' = NoOut
    /\ UNCHANGED <<wrap_lines, lines, rows, cols, line_numbers, prompt,
                   message, run_no_overflow, end_stream, exit_strategy,
                   exit_callbacks, phase, invoked, fed, replaced, fresh_wrap,
                   fresh_lines, logical, widths>>

\* write_lines(out, pager)
WriteLines ==
    LET um == clamped_upper_mark(upper_mark, num_lines(wrap_lines), rows)
    IN  /\ upper_mark' = um
        /\ wrap_lines' = lines_after_render(wrap_lines, line_numbers, cols)
        /\ out' = [rows |-> displayed_lines(wrap_lines, um, line_numbers,
                                            rows, cols),
                   bottom |-> <<>>, cleared |-> FALSE,
                   clamped |-> um # upper_mark]
        /\ Call("write_lines", <<>>, "ok")
        /\ UNCHANGED <<lines, rows, cols, line_numbers, prompt, message,
                       run_no_overflow, end_stream, exit_strategy,
                       exit_callbacks, phase, invoked, fed, replaced,
                       fresh_wrap, fresh_lines, logical, widths>>

\* draw(out, pager): the one-shot dump when no-overflow applies, else the
\* cleared screen, the rows and the reserved last row.
Drawn ==
    LET um == clamped_upper_mark(upper_mark, num_lines(wrap_lines), rows)
        dump == no_overflow_applies(run_no_overflow, wrap_lines, rows)
    IN  /\ upper_mark' = um
        /\ wrap_lines' = lines_after_render(wrap_lines, line_numbers, cols)
        /\ out' = [rows |-> displayed_lines(wrap_lines, um, line_numbers,
                                            rows, cols),
                   bottom |-> IF dump THEN <<>>
                              ELSE <<bottom_row(message, prompt)>>,
                   cleared |-> ~dump,
                   clamped |-> um # upper_mark]
        /\ Record("draw", <<>>, IF dump THEN "dump" ELSE "paged")
        /\ UNCHANGED <<lines, rows, cols, line_numbers, prompt, message,
                       run_no_overflow, end_stream, exit_strategy,
                       exit_callbacks, phase, invoked, fed, replaced,
                       fresh_wrap, fresh_lines, logical, widths>>

Draw == Drawn /\ UNCHANGED tasks

\* Pager::add_exit_callback(cb): the callback registered n-th has id n.
AddExitCallback ==
    /\ exit_callbacks' = Append(exit_callbacks, Len(exit_callbacks) + 1)
    /\ Call("add_exit_callback", <<>>, "ok")
    /\ out' = NoOut
    /\ UNCHANGED <<wrap_lines, lines, upper_mark, rows, cols, line_numbers,
                   prompt, message, run_no_overflow, end_stream, exit_strategy,
                   phase, invoked, fed, replaced, fresh_wrap, fresh_lines,
                   logical, widths>>

\* The callbacks one call of Pager::exit invokes, in the order it invokes them.
exit_calls_reversed(cbs) == [i \in DOMAIN cbs |-> cbs[Len(cbs) + 1 - i]]

exit_calls(cbs) == cbs

\* The session's teardown is entered once, from the running session.
TeardownEnabled == phase = "running"

\* Teardown: the event loop calls Pager::exit and ends the session.
Exit ==
    /\ TeardownEnabled
    /\ invoked' = invoked \o exit_calls(exit_callbacks)
    /\ phase' = "terminated"
    /\ Call("exit", <<>>, "ok")
    /\ out' = NoOut
    /\ UNCHANGED <<pager, fed, replaced, fresh_wrap, fresh_lines, logical,
                   widths>>

(***************************************************************************)
(* A shared session: the pager behind PagerMutex, a producer task and the  *)
(* render task.  A task's call is the sequence of its writes to the        *)
(* pager's fields, made while it holds the lock.                           *)
(***************************************************************************)
\* Mutex::lock: the lock can be taken when no task holds it.
lock_ignored(m) == TRUE

lock_free(m) == m = "free"

\* The number of field writes of a producer call.
producer_writes(op, arg) ==
    IF op = "set_text" THEN 1
    ELSE IF EndsWithNL(arg) THEN 3
    ELSE IF Contains(arg, NL) THEN 2
    ELSE 1

\* The buffer and the pending text after the k-th write of a producer
\* call, given those before it.  push_str ending with a separator:
\* lines.push_str, wrap_lines.append, lines.clear; push_str holding a
\* separator elsewhere: wrap_lines.append, lines.push_str; push_str
\* without one: lines.push_str; set_text: the assignment of wrap_lines.
producer_write(op, arg, k, wl, pend, c) ==
    IF op = "set_text"
    THEN [wrap_lines |-> set_text_wrap(arg, c), lines |-> pend]
    ELSE IF EndsWithNL(arg)
    THEN CASE k = 1 -> [wrap_lines |-> wl, lines |-> pend \o arg]
           [] k = 2 -> [wrap_lines |-> wl \o WrapAll(StrLines(pend), c),
                        lines |-> pend]
           [] OTHER -> [wrap_lines |-> wl, lines |-> <<>>]
    ELSE IF Contains(arg, NL)
    THEN LET ls == StrLines(arg)
         IN  IF k = 1
             THEN [wrap_lines |->
                       wl \o WrapAll(SubSeq(ls, 1, Len(ls) - 1), c),
                   lines |-> pend]
             ELSE [wrap_lines |-> wl, lines |-> pend \o ls[Len(ls)]]
    ELSE [wrap_lines |-> wl, lines |-> pend \o arg]

\* What the completed calls amount to after one more call.
commit(cm, op, arg, c) ==
    [wrap_lines |-> IF op = "set_text" THEN set_text_wrap(arg, c)
                    ELSE push_str_wrap(cm.wrap_lines, cm.lines, arg, c),
     lines |-> IF op = "set_text" THEN set_text_lines(cm.lines, arg)
               ELSE push_str_lines(cm.lines, arg),
     count |-> cm.count + 1]

\* let mut guard = pager.lock().await, before a call of push_str or set_text
ProducerLock(op, arg) ==
    /\ producer.pc = "idle"
    /\ lock_free(mutex)
    /\ mutex' = "producer"
    /\ producer' = [pc |-> "locked", op |-> op, arg |-> arg, done |-> 0]
    /\ UNCHANGED <<pager, history, renderer, committed>>

\* The next field write of the producer's call.
ProducerWrite ==
    /\ producer.pc = "locked"
    /\ producer.done < producer_writes(producer.op, producer.arg)
    /\ LET w == producer_write(producer.op, producer.arg, producer.done + 1,
                               wrap_lines, lines, cols)
       IN  /\ wrap_lines' = w.wrap_lines
           /\ lines' = w.lines
    /\ producer' = [producer EXCEPT !.done = @ + 1]
    /\ UNCHANGED <<upper_mark, rows, cols, line_numbers, prompt, message,
                   run_no_overflow, end_stream, exit_strategy, exit_callbacks,
                   history, mutex, renderer, committed>>

\* drop(guard), the call having returned
ProducerUnlock ==
    /\ producer.pc = "locked"
    /\ producer.done = producer_writes(producer.op, producer.arg)
    /\ mutex' = "free"
    /\ committed' = commit(committed, producer.op, producer.arg, cols)
    /\ producer' = ProducerIdle
    /\ Record(producer.op, producer.arg, "ok")
    /\ out' = NoOut
    /\ UNCHANGED <<pager, phase, invoked, fed, replaced, fresh_wrap,
                   fresh_lines, logical, widths, renderer>>

\* The render task takes the lock.
RenderLock ==
    /\ renderer.pc = "idle"
    /\ lock_free(mutex)
    /\ mutex' = "render"
    /\ renderer' = [renderer EXCEPT !.pc = "locked", !.base = committed]
    /\ UNCHANGED <<pager, history, producer, committed>>

\* The render task draws, holding the lock.
RenderDraw ==
    /\ renderer.pc = "locked"
    /\ Drawn
    /\ renderer' = [renderer EXCEPT !.pc = "drawn",
                                    !.wrap_lines = wrap_lines,
                                    !.lines = lines]
    /\ UNCHANGED <<mutex, producer, committed>>

\* The render task releases the lock.
RenderUnlock ==
    /\ renderer.pc = "drawn"
    /\ mutex' = "free"
    /\ renderer' = [renderer EXCEPT !.pc = "idle"]
    /\ UNCHANGED <<pager, history, producer, committed>>

(***************************************************************************)
(* The inputs of the runs.                                                 *)
(***************************************************************************)
\* push_str arguments of the text runs.
Chunks == StringsOver({"a", "b", NL}, 0, MaxChunk)

\* set_text arguments of the text runs.
TextDocs == {<<>>, <<"b">>, <<"b", NL, "a", "b">>}

\* set_text arguments of the wrapping runs: lines with single and double
\* spaces, and documents of several lines.
WrapTexts == StringsOver({"a", SP, NL}, 0, MaxLineLen)

\* The logical lines of the rendering runs: line i is one letter, or, as
\* the last line of a document, three letters, which wrap on a narrow
\* terminal.
DocLetters == <<"a", "b", "c", "d", "e", "f">>
DocLine(i, long) ==
    LET ch == DocLetters[((i - 1) % Len(DocLetters)) + 1]
    IN  IF long THEN <<ch, ch, ch>> ELSE <<ch>>

\* set_text arguments of the rendering runs.
DrawTexts ==
    {Join([i \in 1..n |-> DocLine(i, long /\ i = n)], NL) :
        n \in 0..MaxDocLines, long \in BOOLEAN}

\* Terminal widths of the rendering runs: a narrow terminal, on which the
\* long line wraps, and a wide one, on which it wraps only when numbered.
DrawCols == {MaxCols - 1, 2 * MaxCols}

\* A line of n letters.
LongLine(n) == [i \in 1..n |-> "a"]

\* set_text arguments of the numbering runs: few and many one-letter
\* lines, documents whose first or last line is long, one line of many
\* letters, and one line fewer than MaxNumberLines of which the last wraps.
NumberTexts ==
    {Join([i \in 1..n |-> DocLine(i, FALSE)], NL) :
        n \in {0, 1, 2, MaxNumberLines}}
    \cup {Join([i \in 1..2 |-> DocLine(i, i = k)], NL) : k \in 1..2}
    \cup {LongLine(MaxNumberLines),
          Join([i \in 1..(MaxNumberLines - 1) |->
                   IF i = MaxNumberLines - 1 THEN LongLine(MaxNumberLines)
                   ELSE DocLine(i, FALSE)], NL)}

\* Terminal widths of the numbering runs: narrower than a number prefix,
\* and wider than the prefixes of one and of two digits.
NumberCols == {1, 2 * MaxCols, 2 * MaxCols + 2}

\* Terminal heights of the numbering runs.
NumberRows == {MaxRows + 1, MaxNumberLines + 2}

\* set_prompt and send_message arguments.
PromptTexts == StringsOver({"a", NL}, 0, 2)

(***************************************************************************)
(* Text runs: a producer appends and replaces text.                        *)
(***************************************************************************)
InitText == \E c \in 2..MaxCols : New(MaxRows, c)

NextText ==
    \/ \E s \in Chunks : Len(fed) + Len(s) <= MaxFed /\ PushStr(s)
    \/ \E t \in TextDocs : SetText(t)

SpecText == InitText /\ [][NextText]_vars

(***************************************************************************)
(* Wrapping runs: one document is set and the terminal is resized.         *)
(***************************************************************************)
InitWrap == \E c \in 1..MaxCols : New(MaxRows, c)

NextWrap ==
    \/ \E t \in WrapTexts : ~replaced /\ SetText(t)
    \/ \E c \in 1..MaxCols : Len(widths) <= MaxResizes /\ Resize(c)

SpecWrap == InitWrap /\ [][NextWrap]_vars

(***************************************************************************)
(* Rendering runs: text, terminal height, scroll position and line-number  *)
(* mode change between renderings.                                         *)
(***************************************************************************)
InitDraw == \E r \in 0..MaxRows, c \in DrawCols : New(r, c)

NextDraw ==
    \/ \E t \in DrawTexts : SetText(t)
    \/ \E r \in 0..MaxRows : SetRows(r)
    \/ \E u \in 0..MaxMark : SetUpperMark(u)
    \/ \E l \in LineNumbers : SetLineNumbers(l)
    \/ \E b \in BOOLEAN : SetRunNoOverflow(b)
    \/ WriteLines
    \/ Draw

SpecDraw == InitDraw /\ [][NextDraw]_vars

(***************************************************************************)
(* Numbering runs: documents are rendered with and without line numbers.   *)
(***************************************************************************)
InitNumber == \E r \in NumberRows, c \in NumberCols : New(r, c)

NextNumber ==
    \/ \E t \in NumberTexts : SetText(t)
    \/ \E u \in 0..MaxMark : SetUpperMark(u)
    \/ \E l \in LineNumbers : SetLineNumbers(l)
    \/ ToggleLineNumbers
    \/ WriteLines

SpecNumber == InitNumber /\ [][NextNumber]_vars

(***************************************************************************)
(* Session runs: a producer appends text and configures the pager, while   *)
(* the pager is drawn.                                                     *)
(***************************************************************************)
\* push_str arguments of the session runs.
SessionChunks == {<<"a">>, <<"a", NL>>}

\* set_prompt and send_message arguments of the session runs.
SessionPrompts == {<<"a">>, <<"b">>}

InitSession == New(MaxRows, 2 * MaxCols)

NextSession ==
    \/ \E s \in SessionChunks : Len(fed) + Len(s) <= MaxFed /\ PushStr(s)
    \/ \E u \in 0..1 : SetUpperMark(u)
    \/ \E l \in LineNumbers : SetLineNumbers(l)
    \/ \E e \in ExitStrategy : SetExitStrategy(e)
    \/ \E b \in BOOLEAN : SetRunNoOverflow(b)
    \/ EndDataStream
    \/ \E t \in SessionPrompts : SetPrompt(t)
    \/ \E t \in SessionPrompts : SendMessage(t)
    \/ Draw
    \/ MessageRendered

SpecSession == InitSession /\ [][NextSession]_vars

(***************************************************************************)
(* Shared runs: a producer and the render task share the pager.            *)
(***************************************************************************)
\* push_str arguments of the shared runs: one for each branch of push_str.
SharedChunks == {<<"a">>, <<"a", NL>>, <<NL, "b">>}

InitShared == New(MaxRows, MaxCols)

NextShared ==
    \/ \E s \in SharedChunks :
          committed.count < MaxShared /\ ProducerLock("push_str", s)
    \/ \E t \in TextDocs :
          committed.count < MaxShared /\ ProducerLock("set_text", t)
    \/ ProducerWrite
    \/ ProducerUnlock
    \/ RenderLock
    \/ RenderDraw
    \/ RenderUnlock

SpecShared == InitShared /\ [][NextShared]_vars

(***************************************************************************)
(* Configuration runs: prompt, message, exit callbacks and teardown.       *)
(***************************************************************************)
InitConfig == \E c \in 1..MaxCols : New(MaxRows, c)

NextConfig ==
    \/ \E t \in PromptTexts : SetPrompt(t)
    \/ \E t \in PromptTexts : SendMessage(t)
    \/ Len(exit_callbacks) < MaxCallbacks /\ AddExitCallback
    \/ Exit

SpecConfig == InitConfig /\ [][NextConfig]_vars

(***************************************************************************)
(* Reference notions the properties are stated with.                       *)
(***************************************************************************)
\* The separator-terminated lines of a text, and the text after its last
\* separator.
TerminatedLines(text) ==
    LET p == SplitOn(text, NL) IN SubSeq(p, 1, Len(p) - 1)
OpenTail(text) == LET p == SplitOn(text, NL) IN p[Len(p)]

\* The last call rendered.
Rendered == last.op \in {"write_lines", "draw"}

\* visible_rows = max(0, rows - 1)
VisibleRows == SatSub(rows, 1)

\* total_rows: the row count of the buffer, which write_lines clamps against.
TotalRows == num_lines(wrap_lines)

\* max(0, total_rows - visible_rows)
MaxUpperMark == SatSub(TotalRows, VisibleRows)

(***************************************************************************)
(* The properties.                                                         *)
(***************************************************************************)
\* C1: on a pager that has only been given push_str calls, the buffer holds
\* the separator-terminated lines of the concatenated text, each wrapped at
\* cols, in order, however the text was cut into chunks, and the pending
\* text is exactly what follows the last separator.
C1_FlattenCorrectness ==
    ~replaced =>
        /\ wrap_lines = WrapAll(TerminatedLines(fed), cols)
        /\ lines = OpenTail(fed)

\* C2: after write_lines or draw, upper_mark is at most
\* max(0, total_rows - visible_rows), and is 0 when total_rows <= visible_rows
\* (upper_mark is a natural number, so 0 <= upper_mark always).
C2_ViewportClamped ==
    Rendered =>
        /\ upper_mark <= MaxUpperMark
        /\ (TotalRows <= VisibleRows => upper_mark = 0)

\* C2 witness: a rendering moved an out-of-range upper_mark to the last
\* window of a document longer than the screen.
C2_Witness ==
    Rendered /\ out.clamped /\ upper_mark > 0 /\ upper_mark = MaxUpperMark

\* C3: write_lines writes exactly the rows of the selected row source at
\* [upper_mark, upper_mark + visible_rows) that exist, upper_mark being the
\* clamped one, so min(visible_rows, rows of the source) of them.
C3_WritesWindow ==
    Rendered =>
        LET src == row_source(wrap_lines, line_numbers, cols)
        IN  /\ out.rows = SkipTake(src, upper_mark, VisibleRows)
            /\ Len(out.rows) = Min(VisibleRows, Len(src))

\* C4: a rendering leaves an upper_mark that is in range as it is, and
\* changes no other field of the pager.
C4_RenderFrame ==
    [][last'.op \in {"write_lines", "draw"} =>
          /\ (upper_mark <= MaxUpperMark => upper_mark' = upper_mark)
          /\ UNCHANGED <<wrap_lines, lines, prompt, message, line_numbers,
                         rows, cols, end_stream, run_no_overflow,
                         exit_strategy, exit_callbacks>>]_vars

\* C4 witness: a rendering with line numbers, of a document longer than the
\* screen, at a scrolled position that was in range.
C4_Witness ==
    /\ Rendered
    /\ ~out.clamped
    /\ upper_mark > 0
    /\ line_numbers \in {"AlwaysOn", "Enabled"}
    /\ Len(out.rows) > 0

\* C5: set_prompt and send_message given a text with a separator reject the
\* call (they panic) and leave every field of the pager as it was.
C5_SeparatorRejected ==
    [][(/\ last'.op \in {"set_prompt", "send_message"}
        /\ Contains(last'.arg, NL)) =>
          /\ last'.outcome = "panic"
          /\ UNCHANGED pager]_vars

\* C5 witness: send_message was rejected on a pager whose prompt had been
\* set and which held a changed message.
C5_Witness ==
    /\ last.op = "send_message"
    /\ last.outcome = "panic"
    /\ message.some /\ message.changed
    /\ prompt # wrap_str(MinusText, cols)

\* C6: no callback is invoked before teardown; teardown invokes every
\* registered callback once, in registration order; none is invoked again.
C6_ExitCallbacksOnce ==
    /\ phase = "running" => invoked = <<>>
    /\ last.op = "exit" => invoked = exit_callbacks
    /\ phase = "terminated" =>
          /\ Len(invoked) <= Len(exit_callbacks)
          /\ invoked = SubSeq(exit_callbacks, 1, Len(invoked))

\* C6 witness: teardown ran with several callbacks registered.
C6_Witness == last.op = "exit" /\ Len(invoked) >= 2

\* C7: after wrapping at cols, any number of rewraps at that same cols
\* leave every wrapped line as the first wrap made it.
C7_RewrapIdempotent ==
    (Len(widths) > 1 /\ \A i \in DOMAIN widths : widths[i] = widths[1]) =>
        wrap_lines = WrapAll(logical, cols)

\* C8: after any resizes, every wrapped line is the wrap of its original
\* logical line at the current cols, and the buffer holds as many lines as
\* were given, in order.
C8_RewrapPreservesContent ==
    Len(widths) > 1 =>
        /\ Len(wrap_lines) = Len(logical)
        /\ wrap_lines = WrapAll(logical, cols)

\* C9: a draw that takes the no-overflow path writes every row of the
\* buffer once, in order.
C9_NoOverflowDump ==
    (last.op = "draw" /\ last.outcome = "dump") =>
        out.rows = row_source(wrap_lines, line_numbers, cols)

\* C10: right after set_text(s) the buffer is the lines of s wrapped at
\* cols, and from then on the buffer is that of a fresh pager given s and
\* the later push_str calls: nothing given before set_text is in it.
C10_SetTextDiscards ==
    /\ last.op = "set_text" => wrap_lines = WrapAll(StrLines(last.arg), cols)
    /\ replaced => wrap_lines = fresh_wrap

\* Line numbers are shown.
Numbered == line_numbers \in {"AlwaysOn", "Enabled"}

\* The rows of logical line idx, numbered on its first row only: the line
\* is rewrapped to c - (len + 3), its first row gets the number and every
\* later row len + 3 spaces.
number_first_row(line, idx, len, c) ==
    LET rs == rewrap(line, SatSub(c, len + 3))
    IN  [i \in DOMAIN rs |->
            (IF i = 1 THEN fmt_numbers(idx, len) ELSE Spaces(len + 3))
            \o rs[i]]

\* C11: with line numbers shown, the rows written are rows of the buffer in
\* which only the first row of each logical line carries the line's 1-based
\* number, and every continuation row is padded to the same margin instead.
C11_NumberOnFirstRowOnly ==
    (Rendered /\ Numbered) =>
        LET len == len_line_number(num_lines(wrap_lines))
            src == Flatten([i \in DOMAIN wrap_lines |->
                               number_first_row(wrap_lines[i], i, len, cols)])
        IN  out.rows = SkipTake(src, upper_mark, Len(out.rows))

\* The width of the number column: the decimal digits of the count of
\* logical lines.
NumberWidth == Len(Digits(Len(wrap_lines)))

\* C12: with line numbers shown, every row written starts with a number of
\* a logical line right-aligned to the decimal digits of the count of
\* logical lines (or, on a continuation row, with that many spaces), in
\* buffers whose lines wrap into several rows too.
C12_NumberWidth ==
    (Rendered /\ Numbered) =>
        \A i \in DOMAIN out.rows :
            LET w == NumberWidth
                prefix == SubSeq(out.rows[i], 1, w + 3)
            IN  \/ \E k \in DOMAIN wrap_lines : prefix = fmt_numbers(k, w)
                \/ prefix = Spaces(w + 3)

\* C13: the toggle maps Enabled to Disabled and Disabled to Enabled and
\* leaves AlwaysOn and AlwaysOff as they are; applied once more it gives
\* the mode it started from; is_invertible holds of a mode exactly when
\* the toggle changes it.
C13_ToggleLineNumbers ==
    last.op = "not" =>
        LET x == last.arg[1]
        IN  /\ x = "Enabled" => line_numbers = "Disabled"
            /\ x = "Disabled" => line_numbers = "Enabled"
            /\ x \in {"AlwaysOn", "AlwaysOff"} => line_numbers = x
            /\ not(line_numbers) = x
            /\ is_invertible(x) <=> (line_numbers # x)

\* C13 witness: the toggle was applied to a locked mode.
C13_Witness == last.op = "not" /\ line_numbers = "AlwaysOn"

\* C20: with line numbers shown, no row written, prefix and text together,
\* is longer than cols.
C20_AnnotatedRowFits ==
    (Rendered /\ Numbered) =>
        \A i \in DOMAIN out.rows : Len(out.rows[i]) <= cols

\* C14: set_line_numbers, set_exit_strategy, set_run_no_overflow and
\* end_data_stream each give their field the requested value (end_stream
\* becomes TRUE) and leave every other field of the pager as it was.
C14_SettersFrame ==
    [][/\ last'.op = "set_line_numbers" =>
            /\ line_numbers' = last'.arg[1]
            /\ UNCHANGED <<wrap_lines, lines, upper_mark, rows, cols, prompt,
                           message, run_no_overflow, end_stream,
                           exit_strategy, exit_callbacks>>
       /\ last'.op = "set_exit_strategy" =>
            /\ exit_strategy' = last'.arg[1]
            /\ UNCHANGED <<wrap_lines, lines, upper_mark, rows, cols, prompt,
                           message, line_numbers, run_no_overflow, end_stream,
                           exit_callbacks>>
       /\ last'.op = "set_run_no_overflow" =>
            /\ run_no_overflow' = last'.arg[1]
            /\ UNCHANGED <<wrap_lines, lines, upper_mark, rows, cols, prompt,
                           message, line_numbers, end_stream, exit_strategy,
                           exit_callbacks>>
       /\ last'.op = "end_data_stream" =>
            /\ end_stream' = TRUE
            /\ UNCHANGED <<wrap_lines, lines, upper_mark, rows, cols, prompt,
                           message, line_numbers, run_no_overflow,
                           exit_strategy, exit_callbacks>>]_vars

\* C14 witness: end_data_stream was called on a pager holding wrapped
\* lines, pending text, a scrolled viewport, a set prompt and a message.
C14_Witness ==
    /\ last.op = "end_data_stream"
    /\ end_stream
    /\ wrap_lines # <<>>
    /\ lines # <<>>
    /\ upper_mark > 0
    /\ message.some
    /\ prompt # wrap_str(MinusText, cols)

\* C16: a paged draw writes into the reserved last row the message when a
\* message is present and marked changed, and the prompt otherwise.
C16_BottomRow ==
    (last.op = "draw" /\ last.outcome = "paged") =>
        out.bottom = <<IF message.some /\ message.changed
                       THEN message.text[1]
                       ELSE prompt[1]>>

\* The last call was push_str; its argument.
Pushed == last.op = "push_str"
PushedArg == last.arg

\* C17: push_str(s), s holding a separator but not ending with one, appends
\* the fragments of s but the last, each wrapped at cols, to the buffer,
\* and leaves exactly the last fragment of s as the pending text, whatever
\* the pending text was.
C17_PushSplitsOwnText ==
    [][(/\ Pushed'
        /\ Contains(PushedArg', NL)
        /\ ~EndsWithNL(PushedArg')) =>
          /\ wrap_lines' =
                wrap_lines \o WrapAll(TerminatedLines(PushedArg'), cols)
          /\ lines' = OpenTail(PushedArg')]_vars

\* C18: push_str(s), s ending with a separator, splits the pending text
\* followed by s at the separators, appends every resulting line, wrapped
\* at cols, to the buffer in order, and leaves the pending text empty.
C18_PushFlushesPending ==
    [][(Pushed' /\ EndsWithNL(PushedArg')) =>
          /\ wrap_lines' =
                wrap_lines
                \o WrapAll(TerminatedLines(lines \o PushedArg'), cols)
          /\ lines' = <<>>]_vars

\* C18 witness: a push_str ending with a separator came after text that
\* had left a line open, and the buffer holds several lines.
C18_Witness ==
    /\ Pushed
    /\ ~replaced
    /\ EndsWithNL(PushedArg)
    /\ Len(PushedArg) < Len(fed)
    /\ fed[Len(fed) - Len(PushedArg)] # NL
    /\ Len(wrap_lines) >= 2
    /\ lines = <<>>

\* C19: push_str(s), s holding no separator, appends s to the pending text
\* and changes nothing else: the buffer, its row count, upper_mark and
\* every other field are as before.
C19_PushExtendsPending ==
    [][(Pushed' /\ ~Contains(PushedArg', NL)) =>
          /\ lines' = lines \o PushedArg'
          /\ num_lines(wrap_lines') = num_lines(wrap_lines)
          /\ UNCHANGED <<wrap_lines, upper_mark, rows, cols, line_numbers,
                         prompt, message, run_no_overflow, end_stream,
                         exit_strategy, exit_callbacks>>]_vars

\* C19 witness: a push_str without a separator extended a pending text
\* that was not empty, on a pager whose buffer holds lines.
C19_Witness ==
    /\ Pushed
    /\ PushedArg # <<>>
    /\ ~Contains(PushedArg, NL)
    /\ Len(lines) > Len(PushedArg)
    /\ wrap_lines # <<>>

\* C15: the producer and the render task are never inside the lock at the
\* same time; what a draw reads, and writes, is the buffer and pending
\* text that the producer calls completed before the render task took the
\* lock amount to, all of them and nothing of a call still under way.
C15_SharedPager ==
    /\ ~(producer.pc # "idle" /\ renderer.pc # "idle")
    /\ renderer.pc = "drawn" =>
          /\ renderer.wrap_lines = renderer.base.wrap_lines
          /\ renderer.lines = renderer.base.lines
          /\ renderer.base = committed
          /\ out.rows = displayed_lines(committed.wrap_lines, upper_mark,
                                        line_numbers, rows, cols)

\* C15 witness: a draw under the lock, after several producer calls that
\* left lines in the buffer and a pending text, wrote rows.
C15_Witness ==
    /\ renderer.pc = "drawn"
    /\ committed.count >= 2
    /\ wrap_lines # <<>>
    /\ lines # <<>>
    /\ Len(out.rows) > 0

\* The number of separators in a text.
Separators(text) == Cardinality({i \in DOMAIN text : text[i] = NL})

C22_CountIsSlicedLength ==
    Rendered =>
        LET src == row_source(wrap_lines, line_numbers, cols)
        IN  /\ num_lines(wrap_lines) = Len(src)
            /\ (/\ src # <<>>
                /\ VisibleRows > 0
                /\ upper_mark >= SatSub(num_lines(wrap_lines), VisibleRows)) =>
                  /\ out.rows # <<>>
                  /\ out.rows[Len(out.rows)] = src[Len(src)]

====
